---------------------------- MODULE Spec2Model ----------------------------
(***************************************************************************)
(* local-gist: paginated, rate-limit-aware listing of a user's gists       *)
(* (src/src/gist.rs, list_gists) followed by a bounded-concurrency,        *)
(* per-item download stage (src/src/main.rs, handle_download, and          *)
(* src/src/gist.rs, download_gist).                                        *)
(***************************************************************************)
EXTENDS Integers, Sequences, FiniteSets, TLC

(***************************************************************************)
(* Bounds of the model.                                                    *)
(***************************************************************************)
MaxPages == 3
MaxPageSize == 2
MaxLimit == 5
MaxItems == 2
MaxFiles == 2
MaxConcurrency == 2
MaxRequests == 5

(***************************************************************************)
(* Program constants.                                                      *)
(***************************************************************************)
DefaultPerPage == 100
PauseMillis == 3000
SnippetRadius == 50

VARIABLES
    command,        \* cli.command: "list" or "download"
    limit,          \* limit: Option<u32>
    concurrency,    \* concurrency: usize
    server,         \* the listing endpoint: the pages it serves, in order
    endless,        \* the endpoint signals rel="next" on every page
    runs,           \* how many times the command is run
    run,            \* the run in progress
    raw,            \* the raw_url endpoint: path |-> response (status, body)
    before,         \* what the run before left behind and saw
    main_pc,        \* where main / handle_download stands
    l_pc,           \* where list_gists stands
    page,           \* list_gists: page
    per_page,       \* list_gists: per_page
    all_gists,      \* list_gists: all_gists
    has_next,       \* list_gists: has_next_page (of the current response)
    rate_remaining, \* list_gists: rate_remaining (of the current response)
    rate_status,    \* the quota the server reported with the current response
    slept,          \* milliseconds slept after the current response
    requests,       \* listing requests issued so far
    list_fault,     \* what went wrong in the listing: none, build, send, read, parse
    sent_body,      \* the body of the last listing response that was read
    result,         \* what list_gists returned
    gists,          \* handle_download: gists
    number_of_files,\* handle_download: number_of_files
    next_gist,      \* handle_download: position of the for loop of line 66
    permits,        \* semaphore: permits available
    tasks,          \* download_set: one record per spawned task
    joined,         \* tasks already returned by join_next
    monitor,        \* monitor_set: the monitor task
    dirs,           \* disk: item directories that exist
    disk,           \* disk: the files, as <<item id, file name, content>>
    log,            \* what was reported: found, ok and error events, complete
    exit            \* the result main returned

list_vars == <<l_pc, page, per_page, all_gists, has_next, rate_remaining,
               rate_status, slept, requests, list_fault, sent_body, result>>
batch_vars == <<gists, number_of_files, next_gist, permits, tasks, joined,
                monitor, dirs, disk, log>>
input_vars == <<command, limit, concurrency, server, endless, runs>>
run_vars == <<run, raw, before>>
vars == <<input_vars, run_vars, main_pc, list_vars, batch_vars, exit>>

(***************************************************************************)
(* Options and small helpers.                                              *)
(***************************************************************************)
None == [some |-> FALSE, v |-> 0]
Some(x) == [some |-> TRUE, v |-> x]
NoHeader == [some |-> FALSE, v |-> <<>>]
Header(s) == [some |-> TRUE, v |-> s]

Min(a, b) == IF a < b THEN a ELSE b

RECURSIVE Concat(_)
Concat(ss) == IF ss = <<>> THEN <<>> ELSE Head(ss) \o Concat(Tail(ss))

RECURSIVE SumSeq(_)
SumSeq(s) == IF s = <<>> THEN 0 ELSE Head(s) + SumSeq(Tail(s))

Prefix(s, n) == SubSeq(s, 1, Min(n, Len(s)))


(***************************************************************************)
(* The listing endpoint.  A server is its item sequence split into pages;  *)
(* items are numbered in server order.  Every page but the last carries a  *)
(* link header with rel="next"; a page past the last one is empty.         *)
(***************************************************************************)
RECURSIVE MkPages(_, _)
MkPages(sizes, first) ==
    IF sizes = <<>> THEN <<>>
    ELSE <<[k \in 1..Head(sizes) |-> first + k - 1]>>
         \o MkPages(Tail(sizes), first + Head(sizes))

Layouts(maxItems) ==
    {sz \in UNION {[1..n -> 0..MaxPageSize] : n \in 1..MaxPages} :
        SumSeq(sz) <= maxItems}

Servers(maxItems) == {MkPages(sz, 1) : sz \in Layouts(maxItems)}

ServerItems == Concat(server)

PageItems(p) == IF p \in 1..Len(server) THEN server[p] ELSE <<>>

\* The link header of page p: its rel values, or no header at all.  An
\* endless endpoint names a next page on every page it serves.
LinkHeader(p) ==
    IF endless
    THEN IF p = 1 THEN Header(<<"next", "last">>)
         ELSE Header(<<"prev", "next", "last", "first">>)
    ELSE IF Len(server) = 1 \/ p > Len(server) THEN NoHeader
    ELSE IF p = 1 THEN Header(<<"next", "last">>)
    ELSE IF p < Len(server) THEN Header(<<"prev", "next", "last", "first">>)
    ELSE Header(<<"prev", "first">>)

\* A response body: the text of a JSON array of gists, character by
\* character (a gist counts as one character).  The character "wide" takes
\* three bytes in UTF-8, every other one a single byte.
Tok(t, id) == [t |-> t, id |-> id]
Width(tok) == IF tok.t = "wide" THEN 3 ELSE 1
RECURSIVE ByteLen(_)
\* str::len
ByteLen(text) ==
    IF text = <<>> THEN 0 ELSE Width(Head(text)) + ByteLen(Tail(text))
Encode(items) ==
    <<Tok("[", 0)>> \o [k \in 1..Len(items) |-> Tok("gist", items[k])]
                    \o <<Tok("]", 0)>>
\* Bodies that are not a gist array: an API error object, a cut-off array.
ErrorObject == <<Tok("{", 0), Tok("message", 0), Tok("}", 0)>>
CutOff(items) == SubSeq(Encode(items), 1, Len(items) + 1)
\* An object whose text has a three-byte character at bytes 49 to 51.
WideObject ==
    <<Tok("{", 0)>> \o [k \in 1..(SnippetRadius - 2) |-> Tok("x", 0)]
                    \o <<Tok("wide", 0), Tok("}", 0)>>
Bodies(p) ==
    {Encode(PageItems(p)), ErrorObject, CutOff(PageItems(p)), WideObject}

(***************************************************************************)
(* The x-ratelimit-remaining header.  The server reports a quota (absent,  *)
(* an integer, or text that is no number) and formats it into the header.  *)
(***************************************************************************)
DigitChars == <<"0", "1", "2", "3", "4", "5", "6", "7", "8", "9">>
RECURSIVE Decimal(_)
Decimal(n) ==
    IF n < 0 THEN <<"-">> \o Decimal(0 - n)
    ELSE IF n < 10 THEN <<DigitChars[n + 1]>>
    ELSE Decimal(n \div 10) \o <<DigitChars[(n % 10) + 1]>>

Absent == [kind |-> "absent", n |-> 0, raw |-> <<>>]
Quota(n) == [kind |-> "int", n |-> n, raw |-> <<>>]
Raw(s) == [kind |-> "raw", n |-> 0, raw |-> s]
\* 4294967296 = u32::MAX + 1
TooBig == <<"4", "2", "9", "4", "9", "6", "7", "2", "9", "6">>
RateStatuses ==
    {Absent, Quota(0 - 1), Quota(0), Quota(1), Quota(50),
     Raw(<<>>), Raw(<<"a">>), Raw(<<"5", "a">>), Raw(<<" ", "5">>), Raw(TooBig)}

RateHeader(st) ==
    IF st.kind = "absent" THEN NoHeader
    ELSE IF st.kind = "int" THEN Header(Decimal(st.n))
    ELSE Header(st.raw)

(***************************************************************************)
(* gist.rs 103-138: has_next_page, get_rate_limit, should_continue.        *)
(***************************************************************************)
\* link.contains(r#"rel="next"#)
has_next_page(link) ==
    IF link.some THEN \E k \in 1..Len(link.v) : link.v[k] = "next" ELSE FALSE

get_rate_limit(remaining) == remaining

IsDigit(c) == \E d \in 1..10 : DigitChars[d] = c
DigitValue(c) == (CHOOSE d \in 1..10 : DigitChars[d] = c) - 1
RECURSIVE StripZeros(_)
StripZeros(s) ==
    IF s # <<>> /\ Head(s) = "0" THEN StripZeros(Tail(s)) ELSE s
RECURSIVE DigitsLess(_, _)
\* a < b for two digit strings of the same length
DigitsLess(a, b) ==
    IF a = <<>> THEN FALSE
    ELSE IF DigitValue(Head(a)) # DigitValue(Head(b))
         THEN DigitValue(Head(a)) < DigitValue(Head(b))
    ELSE DigitsLess(Tail(a), Tail(b))
U32MaxDigits == <<"4", "2", "9", "4", "9", "6", "7", "2", "9", "5">>
FitsU32(digits) ==
    LET d == StripZeros(digits) IN
    \/ Len(d) < Len(U32MaxDigits)
    \/ Len(d) = Len(U32MaxDigits) /\ ~DigitsLess(U32MaxDigits, d)
RECURSIVE Horner(_, _)
Horner(digits, acc) ==
    IF digits = <<>> THEN acc
    ELSE Horner(Tail(digits), acc * 10 + DigitValue(Head(digits)))
\* str::parse::<u32>: an optional '+', then one or more digits, no overflow
parse_u32(s) ==
    LET digits == IF s # <<>> /\ Head(s) = "+" THEN Tail(s) ELSE s IN
    IF /\ digits # <<>>
       /\ \A k \in 1..Len(digits) : IsDigit(digits[k])
       /\ FitsU32(digits)
    THEN [ok |-> TRUE, n |-> Horner(StripZeros(digits), 0)]
    ELSE [ok |-> FALSE, n |-> 0]

should_continue_lenient(remaining) ==
    IF remaining.some
    THEN LET r == parse_u32(remaining.v) IN IF r.ok THEN r.n >= 0 ELSE FALSE
    ELSE FALSE

should_continue(remaining) ==
    IF remaining.some
    THEN LET r == parse_u32(remaining.v) IN IF r.ok THEN r.n > 0 ELSE FALSE
    ELSE FALSE

\* The characters of text that fit a gist array, counted from its start.
RECURSIVE Accepted(_, _)
Accepted(text, k) ==
    IF k > Len(text) THEN Len(text)
    ELSE IF \/ k = 1 /\ text[k].t = "["
            \/ k > 1 /\ text[k - 1].t # "]" /\ text[k].t \in {"gist", "]"}
         THEN Accepted(text, k + 1)
    ELSE k - 1

\* serde_json::from_str::<Vec<Gist>>(&text); on an error, column is the
\* byte offset (in the one line of the text) at which the parser stopped
ParseGists(text) ==
    IF /\ Len(text) >= 2
       /\ text[1].t = "["
       /\ text[Len(text)].t = "]"
       /\ \A k \in 2..(Len(text) - 1) : text[k].t = "gist"
    THEN [ok |-> TRUE, column |-> 0,
          gists |-> [k \in 1..(Len(text) - 2) |-> text[k + 1].id]]
    ELSE [ok |-> FALSE, gists |-> <<>>,
          column |-> ByteLen(SubSeq(text, 1, Accepted(text, 1)))]

\* str::is_char_boundary: byte offset b, counted from character k of text,
\* is where a character starts or the text ends
RECURSIVE IsCharBoundary(_, _, _)
IsCharBoundary(text, k, b) ==
    IF b = 0 THEN TRUE
    ELSE IF k > Len(text) \/ Width(text[k]) > b THEN FALSE
    ELSE IsCharBoundary(text, k + 1, b - Width(text[k]))

\* lines 185-187: &text[start_pos..end_pos] panics unless both are
\* character boundaries of text and start_pos <= end_pos
SnippetPanics(text, column) ==
    LET start_pos == IF column > SnippetRadius
                     THEN column - SnippetRadius ELSE 0
        end_pos == Min(column + SnippetRadius, ByteLen(text))
    IN  \/ start_pos > end_pos
        \/ ~IsCharBoundary(text, 1, start_pos)
        \/ ~IsCharBoundary(text, 1, end_pos)


(***************************************************************************)
(* gist.rs 145-209: list_gists.                                            *)
(***************************************************************************)
Limits == {None} \cup {Some(n) : n \in 0..MaxLimit}

NoResult == [kind |-> "none", gists |-> <<>>, text |-> <<>>]
Ok(gs) == [kind |-> "Ok", gists |-> gs, text |-> <<>>]
RequestError == [kind |-> "RequestError", gists |-> <<>>, text |-> <<>>]
JsonError(text) == [kind |-> "JsonError", gists |-> <<>>, text |-> text]

\* line 149: limit.unwrap_or(100)
PerPage(lim) == IF lim.some THEN lim.v ELSE DefaultPerPage

\* line 194-195: if let Some(limit) = limit { if all_gists.len() >= limit
LimitReached_strict(all, lim) == lim.some /\ Len(all) > lim.v
LimitReached(all, lim) == lim.some /\ Len(all) >= lim.v

\* line 196: all_gists.truncate(limit)
Truncate_none(all, n) == all
Truncate(all, n) == SubSeq(all, 1, Min(n, Len(all)))

\* line 201: if !has_next_page { break; }
NoNextPage_orEmpty(next, got) == ~next \/ got = <<>>
NoNextPage(next, got) == ~next

\* line 179-191: a body that does not parse ends list_gists with the error
OnParseError(all, text) == JsonError(text)

\* The locals of list_gists, before the call and after the return.
NoFrame ==
    /\ page' = 0
    /\ per_page' = 0
    /\ all_gists' = <<>>
    /\ has_next' = FALSE
    /\ rate_remaining' = NoHeader
    /\ rate_status' = Absent
    /\ slept' = 0

Return(r, fault) ==
    /\ result' = r
    /\ list_fault' = fault
    /\ l_pc' = IF r.kind = "Ok" THEN "ok" ELSE "err"
    /\ NoFrame
    /\ UNCHANGED <<main_pc, exit>>

\* A panic in list_gists unwinds through main: the process ends.
Panic(fault) ==
    /\ l_pc' = "panic"
    /\ list_fault' = fault
    /\ main_pc' = "exited"
    /\ exit' = "Panic"
    /\ NoFrame
    /\ UNCHANGED result

\* lines 146-151
ListInit ==
    /\ l_pc = "init"
    /\ \E built \in BOOLEAN :
        IF built
        THEN /\ page' = 1
             /\ per_page' = PerPage(limit)
             /\ all_gists' = <<>>
             /\ l_pc' = "send"
             /\ UNCHANGED <<has_next, rate_remaining, rate_status, slept,
                            list_fault, result, main_pc, exit>>
        ELSE Return(RequestError, "build")
    /\ UNCHANGED <<input_vars, run_vars, requests, sent_body, batch_vars>>

\* lines 154-164: one request for the current page; its headers are read
SendRequest ==
    /\ l_pc = "send"
    /\ requests < MaxRequests
    /\ requests' = requests + 1
    /\ \E sent \in BOOLEAN :
        IF sent
        THEN \E st \in RateStatuses :
                /\ has_next' = has_next_page(LinkHeader(page))
                /\ rate_status' = st
                /\ rate_remaining' = get_rate_limit(RateHeader(st))
                /\ l_pc' = "throttle"
                /\ UNCHANGED <<page, per_page, all_gists, slept, list_fault,
                               result, main_pc, exit>>
        ELSE Return(RequestError, "send")
    /\ UNCHANGED <<input_vars, run_vars, sent_body, batch_vars>>

\* lines 165-171
Throttle ==
    /\ l_pc = "throttle"
    /\ slept' = IF should_continue(rate_remaining) THEN 0 ELSE PauseMillis
    /\ l_pc' = "text"
    /\ UNCHANGED <<input_vars, run_vars, main_pc, page, per_page, all_gists, has_next,
                   rate_remaining, rate_status, requests, list_fault,
                   sent_body, result, batch_vars, exit>>

\* lines 173-206: the body is read and parsed, then the loop ends or goes on
ReadBody ==
    /\ l_pc = "text"
    /\ \E read \in BOOLEAN :
        IF ~read THEN Return(RequestError, "read") /\ UNCHANGED sent_body
        ELSE \E text \in Bodies(page) :
            LET parsed == ParseGists(text)
                all == all_gists \o parsed.gists
            IN  /\ sent_body' = text
                /\ IF ~parsed.ok
                   THEN IF SnippetPanics(text, parsed.column)
                        THEN Panic("parse")
                        ELSE Return(OnParseError(all_gists, text), "parse")
                   ELSE IF LimitReached(all, limit)
                        THEN Return(Ok(Truncate(all, limit.v)), "none")
                   ELSE IF NoNextPage(has_next, parsed.gists)
                        THEN Return(Ok(all), "none")
                   ELSE /\ all_gists' = all
                        /\ page' = page + 1
                        /\ l_pc' = "send"
                        /\ rate_remaining' = NoHeader
                        /\ rate_status' = Absent
                        /\ slept' = 0
                        /\ UNCHANGED <<per_page, has_next, list_fault,
                                       result, main_pc, exit>>
    /\ UNCHANGED <<input_vars, run_vars, requests, batch_vars>>


(***************************************************************************)
(* A gist's files (Gist.files).  The catalogue gives gist number id one,   *)
(* two, ... MaxFiles files, or none.                                       *)
(***************************************************************************)
GistFiles(id) == 1..(id % (MaxFiles + 1))

\* The raw_url endpoint: what it answers for each file of each gist.
Paths ==
    {p \in (1..(MaxPages * MaxPageSize)) \X (1..MaxFiles) :
        p[2] \in GistFiles(p[1])}
Response(status, body) == [status |-> status, body |-> body]
Served(v) == [p \in Paths |-> Response(200, v)]
\* The endpoint answers 404 for the files of gist id.
Missing(r, id) ==
    [p \in Paths |-> IF p[1] = id THEN Response(404, "Not Found") ELSE r[p]]
\* The owner edits every file that is there.
Republish(r) ==
    [p \in Paths |-> IF r[p].status = 200 THEN Response(200, "v2") ELSE r[p]]

RECURSIVE CountFiles(_)
\* main.rs 52: gists.iter().map(|g| g.files.len()).sum()
CountFiles(gs) ==
    IF gs = <<>> THEN 0
    ELSE Cardinality(GistFiles(Head(gs))) + CountFiles(Tail(gs))

(***************************************************************************)
(* main.rs 24-64: main and the head of handle_download.                    *)
(***************************************************************************)
NoLog == [found |-> None, succeeded |-> 0, failed |-> 0, downloaded |-> None,
          listed |-> 0]

\* main.rs 35 and 51: both commands start by listing
CallList ==
    /\ main_pc = "start"
    /\ l_pc = "idle"
    /\ main_pc' = "listing"
    /\ l_pc' = "init"
    /\ UNCHANGED <<input_vars, run_vars, page, per_page, all_gists, has_next,
                   rate_remaining, rate_status, slept, requests, list_fault,
                   sent_body, result, batch_vars, exit>>

\* main.rs 35-41: the list command prints what list_gists returned
MainList ==
    /\ command = "list"
    /\ main_pc = "listing"
    /\ l_pc \in {"ok", "err"}
    /\ main_pc' = "exited"
    /\ IF l_pc = "err"
       THEN /\ exit' = result.kind
            /\ UNCHANGED log
       ELSE /\ exit' = "Ok"
            /\ log' = [log EXCEPT !.listed = Len(result.gists)]
    /\ UNCHANGED <<input_vars, run_vars, list_vars, gists, number_of_files, next_gist,
                   permits, tasks, joined, monitor, dirs, disk>>

\* main.rs 58: Semaphore::new(concurrency), whatever concurrency is
SemaphoreNew_atLeastOne(c) == IF c = 0 THEN 1 ELSE c
SemaphoreNew(c) == c

\* main.rs 51-64: the ? of line 51, then the set-up of the batch
HdListed ==
    /\ command = "download"
    /\ main_pc = "listing"
    /\ l_pc \in {"ok", "err"}
    /\ IF l_pc = "err"
       THEN /\ exit' = result.kind
            /\ main_pc' = "exited"
            /\ UNCHANGED batch_vars
       ELSE /\ gists' = result.gists
            /\ number_of_files' = CountFiles(result.gists)
            /\ permits' = SemaphoreNew(concurrency)
            /\ monitor' = "running"
            /\ log' = [log EXCEPT !.found = Some(Len(result.gists))]
            /\ next_gist' = 1
            /\ main_pc' = "spawning"
            /\ UNCHANGED <<tasks, joined, dirs, disk, exit>>
    /\ UNCHANGED <<input_vars, run_vars, list_vars>>

(***************************************************************************)
(* main.rs 66-80: the spawn loop and the body of one download task;        *)
(* gist.rs 215-235: download_gist.                                         *)
(***************************************************************************)
\* made, wrote and hit record what the task did and met: its directory
\* call succeeded, the files it wrote, a fault of the network or the disk.
NewTask(id) ==
    [id |-> id, st |-> "acquire", permit |-> FALSE, todo |-> {},
     inhand |-> 0, text |-> "", error |-> "none",
     made |-> FALSE, wrote |-> {}, hit |-> FALSE]

Spawned == 1..Len(tasks)
Holding(i) == tasks[i].st \in {"download", "files", "fetched", "returned"}
Terminal(i) == tasks[i].st \in {"Succeeded", "Failed"}

\* main.rs 66-70: one task per listed gist
Spawn ==
    /\ main_pc = "spawning"
    /\ next_gist <= Len(gists)
    /\ tasks' = Append(tasks, NewTask(gists[next_gist]))
    /\ next_gist' = next_gist + 1
    /\ UNCHANGED <<input_vars, run_vars, main_pc, list_vars, gists,
                   number_of_files, permits, joined, monitor, dirs, disk,
                   log, exit>>

\* main.rs 82
AllCreated ==
    /\ main_pc = "spawning"
    /\ next_gist > Len(gists)
    /\ main_pc' = "joining"
    /\ UNCHANGED <<input_vars, run_vars, list_vars, batch_vars, exit>>

\* Semaphore::acquire: a permit is there to take
CanAcquire_any(p) == p >= 0
CanAcquire(p) == p > 0

\* main.rs 71: let _permit = sem.acquire().await
Acquire(i) ==
    /\ tasks[i].st = "acquire"
    /\ CanAcquire(permits)
    /\ permits' = permits - 1
    /\ tasks' = [tasks EXCEPT ![i].st = "download", ![i].permit = TRUE]
    /\ UNCHANGED <<input_vars, run_vars, main_pc, list_vars, gists,
                   number_of_files, next_gist, joined, monitor, dirs, disk,
                   log, exit>>

\* std::fs::create_dir_all (gist.rs 220): a directory that exists is no error
create_dir_all_lazy(ds, id) == [ok |-> TRUE, dirs |-> ds]
create_dir_all(ds, id) == [ok |-> TRUE, dirs |-> ds \cup {id}]

\* gist.rs 216-220: the client is built and the gist's directory created;
\* fault: the ? of line 216 or of line 220 met an error
DownloadStart(i) ==
    /\ tasks[i].st = "download"
    /\ \E fault \in BOOLEAN :
        LET made == create_dir_all(dirs, tasks[i].id) IN
        IF ~fault /\ made.ok
        THEN /\ dirs' = made.dirs
             /\ tasks' = [tasks EXCEPT
                    ![i].made = TRUE,
                    ![i].todo = GistFiles(tasks[i].id),
                    ![i].st = IF GistFiles(tasks[i].id) = {}
                              THEN "returned" ELSE "files"]
        ELSE /\ tasks' = [tasks EXCEPT ![i].error = "mkdir",
                                       ![i].hit = fault,
                                       ![i].st = "returned"]
             /\ UNCHANGED dirs
    /\ UNCHANGED <<input_vars, run_vars, main_pc, list_vars, gists,
                   number_of_files, next_gist, permits, joined, monitor,
                   disk, log, exit>>

\* gist.rs 225: send().await?.text().await? reads the body whatever the
\* response's status is
ResponseText_checked(resp) == [ok |-> resp.status < 400, text |-> resp.body]
ResponseText(resp) == [ok |-> TRUE, text |-> resp.body]

\* gist.rs 223-225: the next file of the map is fetched;
\* fault: the request or the reading of the body met a transport error
Fetch(i) ==
    /\ tasks[i].st = "files"
    /\ \E f \in tasks[i].todo, fault \in BOOLEAN :
        LET got == ResponseText(raw[<<tasks[i].id, f>>]) IN
        tasks' = IF ~fault /\ got.ok
                 THEN [tasks EXCEPT ![i].inhand = f, ![i].text = got.text,
                                    ![i].st = "fetched"]
                 ELSE [tasks EXCEPT ![i].error = "fetch", ![i].hit = fault,
                                    ![i].st = "returned"]
    /\ UNCHANGED <<input_vars, run_vars, main_pc, list_vars, gists,
                   number_of_files, next_gist, permits, joined, monitor,
                   dirs, disk, log, exit>>

\* The files of d but the one at <<id, f>>.
Others(d, id, f) == {t \in d : ~(t[1] = id /\ t[2] = f)}
OnDisk(id, f) == \E t \in disk : t[1] = id /\ t[2] = f

\* std::fs::write (gist.rs 231): the file is created or truncated, then the
\* content written.  fault "create": File::create failed; fault "partial":
\* write_all failed, and the file is left truncated.
fs_write_new(d, id, f, text, fault) ==
    IF fault = "none" /\ Others(d, id, f) = d
    THEN [ok |-> TRUE, disk |-> d \cup {<<id, f, text>>}]
    ELSE [ok |-> FALSE, disk |-> d]
fs_write(d, id, f, text, fault) ==
    IF fault = "none"
    THEN [ok |-> TRUE, disk |-> Others(d, id, f) \cup {<<id, f, text>>}]
    ELSE IF fault = "partial"
         THEN [ok |-> FALSE, disk |-> Others(d, id, f) \cup {<<id, f, "">>}]
    ELSE [ok |-> FALSE, disk |-> d]

\* gist.rs 228-231: the fetched content is written to the gist's directory
Write(i) ==
    /\ tasks[i].st = "fetched"
    /\ \E fault \in {"none", "create", "partial"} :
        LET f == tasks[i].inhand
            w == fs_write(disk, tasks[i].id, f, tasks[i].text, fault)
            rest == tasks[i].todo \ {f}
        IN  /\ disk' = w.disk
            /\ tasks' =
                IF w.ok
                THEN [tasks EXCEPT
                        ![i].todo = rest, ![i].inhand = 0, ![i].text = "",
                        ![i].wrote = @ \cup {f},
                        ![i].st = IF rest = {} THEN "returned" ELSE "files"]
                ELSE [tasks EXCEPT
                        ![i].error = "write", ![i].hit = fault # "none",
                        ![i].wrote = IF fault = "partial"
                                     THEN @ \cup {f} ELSE @,
                        ![i].inhand = 0, ![i].text = "",
                        ![i].st = "returned"]
    /\ UNCHANGED <<input_vars, run_vars, main_pc, list_vars, gists,
                   number_of_files, next_gist, permits, joined, monitor,
                   dirs, log, exit>>

\* main.rs 73-78: the task ends Failed only on its own download's error
TaskOutcome_lenient(i) == "Succeeded"
TaskOutcome_shared(i) ==
    IF \E j \in Spawned : tasks[j].error # "none"
    THEN "Failed" ELSE "Succeeded"
TaskOutcome(i) ==
    IF tasks[i].error # "none" THEN "Failed" ELSE "Succeeded"

\* main.rs 75 and 79: _permit is dropped when the task's block ends
PermitsAfterDrop_kept(i) == permits
PermitsAfterDrop_leaky(i) ==
    IF tasks[i].error # "none" THEN permits ELSE permits + 1
PermitsAfterDrop(i) ==
    IF tasks[i].permit THEN permits + 1 ELSE permits

\* main.rs 73-79: the outcome is logged, the permit dropped, the task ends
Finish(i) ==
    /\ tasks[i].st = "returned"
    /\ LET outcome == TaskOutcome(i) IN
       /\ tasks' = [tasks EXCEPT ![i].st = outcome, ![i].permit = FALSE]
       /\ log' = IF outcome = "Failed"
                 THEN [log EXCEPT !.failed = @ + 1]
                 ELSE [log EXCEPT !.succeeded = @ + 1]
    /\ permits' = PermitsAfterDrop(i)
    /\ UNCHANGED <<input_vars, run_vars, main_pc, list_vars, gists, number_of_files,
                   next_gist, joined, monitor, dirs, disk, exit>>

(***************************************************************************)
(* main.rs 87-99: the join loop and the end of handle_download.            *)
(***************************************************************************)
\* What join_next yields for a finished task: the tasks return (), and a
\* JoinError stands for a panic or a cancellation only.
JoinResult_failfast(i) ==
    IF tasks[i].st = "Failed" THEN "JoinError" ELSE "Ok"
JoinResult(i) == "Ok"

\* Dropping the JoinSet aborts every task still in it.
Abort(t) ==
    IF t.st \in {"Succeeded", "Failed"} THEN t
    ELSE [t EXCEPT !.st = "Aborted", !.permit = FALSE]

\* main.rs 87-89: while let Some(res) = join_next().await { res? }
JoinNext ==
    /\ main_pc = "joining"
    /\ \E i \in Spawned \ joined :
        /\ Terminal(i)
        /\ IF JoinResult(i) = "Ok"
           THEN /\ joined' = joined \cup {i}
                /\ UNCHANGED <<main_pc, tasks, permits, monitor, exit>>
           ELSE /\ exit' = JoinResult(i)
                /\ main_pc' = "exited"
                /\ tasks' = [j \in Spawned |-> Abort(tasks[j])]
                /\ permits' = permits
                      + Cardinality({j \in Spawned : tasks[j].permit})
                /\ monitor' = "aborted"
                /\ UNCHANGED joined
    /\ UNCHANGED <<input_vars, run_vars, list_vars, gists, number_of_files, next_gist,
                   dirs, disk, log>>

\* main.rs 87, 91-99: the set is empty; the monitor is aborted, Ok returned
JoinDone ==
    /\ main_pc = "joining"
    /\ joined = Spawned
    /\ monitor' = "aborted"
    /\ log' = [log EXCEPT !.downloaded = Some(number_of_files)]
    /\ exit' = "Ok"
    /\ main_pc' = "exited"
    /\ UNCHANGED <<input_vars, run_vars, list_vars, gists, number_of_files, next_gist,
                   permits, tasks, joined, dirs, disk>>

\* The command is run once more: a new process, the same disk; the owner
\* may have edited the files in between.
Rerun ==
    /\ main_pc = "exited"
    /\ run < runs
    /\ run' = run + 1
    /\ before' = [dirs |-> dirs, disk |-> disk, raw |-> raw,
                 ok |-> {tasks[i].id : i \in {j \in Spawned : 
                                                tasks[j].st = "Succeeded"}}]
    /\ \E r \in {raw, Republish(raw)} : raw' = r
    /\ main_pc' = "start"
    /\ l_pc' = "idle"
    /\ NoFrame
    /\ requests' = 0
    /\ list_fault' = "none"
    /\ sent_body' = <<>>
    /\ result' = NoResult
    /\ gists' = <<>>
    /\ number_of_files' = 0
    /\ next_gist' = 0
    /\ permits' = 0
    /\ tasks' = <<>>
    /\ joined' = {}
    /\ monitor' = "none"
    /\ log' = NoLog
    /\ exit' = "none"
    /\ UNCHANGED <<input_vars, dirs, disk>>

(***************************************************************************)
(* The program.                                                            *)
(***************************************************************************)
\* The state of a process that starts on an empty disk.
Start ==
    /\ run = 1
    /\ before = [dirs |-> {}, disk |-> {}, raw |-> raw, ok |-> {}]
    /\ main_pc = "start"
    /\ l_pc = "idle"
    /\ page = 0
    /\ per_page = 0
    /\ all_gists = <<>>
    /\ has_next = FALSE
    /\ rate_remaining = NoHeader
    /\ rate_status = Absent
    /\ slept = 0
    /\ requests = 0
    /\ list_fault = "none"
    /\ sent_body = <<>>
    /\ result = NoResult
    /\ gists = <<>>
    /\ number_of_files = 0
    /\ next_gist = 0
    /\ permits = 0
    /\ tasks = <<>>
    /\ joined = {}
    /\ monitor = "none"
    /\ dirs = {}
    /\ disk = {}
    /\ log = NoLog
    /\ exit = "none"

\* The list command is explored over every server of the bounds, endless or
\* not, and every limit; the download command over the servers of one or two
\* pages that hold at most MaxItems gists, so that a batch has at most
\* MaxItems tasks; a second run over the server of one gist.
Init ==
    /\ command \in {"list", "download"}
    /\ limit \in Limits
    /\ concurrency \in 0..MaxConcurrency
    /\ server \in Servers(MaxPages * MaxPageSize)
    /\ endless \in BOOLEAN
    /\ runs \in 1..2
    /\ raw = Served("v1")
    /\ command = "download" =>
            /\ Len(server) <= 2
            /\ Len(Concat(server)) <= MaxItems
            /\ limit.some => limit.v <= MaxItems
            /\ ~endless
    /\ command = "list" => concurrency = 0 /\ runs = 1
    /\ runs = 2 => server = <<<<1>>>> /\ limit = None /\ concurrency = 1
    /\ Start

Next ==
    \/ CallList
    \/ ListInit
    \/ SendRequest
    \/ Throttle
    \/ ReadBody
    \/ MainList
    \/ HdListed
    \/ Spawn
    \/ AllCreated
    \/ \E i \in Spawned : Acquire(i)
    \/ \E i \in Spawned : DownloadStart(i)
    \/ \E i \in Spawned : Fetch(i)
    \/ \E i \in Spawned : Write(i)
    \/ \E i \in Spawned : Finish(i)
    \/ JoinNext
    \/ JoinDone
    \/ Rerun

Spec == Init /\ [][Next]_vars

\* The main task, which runs list_gists and handle_download itself.
MainStep ==
    \/ CallList
    \/ ListInit
    \/ SendRequest
    \/ Throttle
    \/ ReadBody
    \/ MainList
    \/ HdListed
    \/ Spawn
    \/ AllCreated
    \/ JoinNext
    \/ JoinDone

\* The task spawned for the i-th gist (main.rs 70-80).
TaskStep(i) ==
    \/ Acquire(i)
    \/ DownloadStart(i)
    \/ Fetch(i)
    \/ Write(i)
    \/ Finish(i)

\* The runtime keeps running the main task and every spawned task that can
\* take a step, and every request, read and write returns.  Whether the
\* command is run again is up to the user.
Fairness ==
    /\ WF_vars(MainStep)
    /\ \A i \in 1..MaxItems : WF_vars(i \in Spawned /\ TaskStep(i))

\* The download command for the users with one or two gists on one page;
\* the list command for those with one; a second run for one user.
InitFair ==
    /\ command \in {"list", "download"}
    /\ limit = None
    /\ concurrency \in 1..MaxConcurrency
    /\ server \in {<<<<a>>>> : a \in 1..MaxItems} \cup
                 {<<<<a, b>>>> : a, b \in 1..MaxItems}
    /\ Len(server[1]) = 2 => server[1][1] < server[1][2]
    /\ endless = FALSE
    /\ runs \in 1..2
    /\ raw = Served("v1")
    /\ command = "list" => concurrency = 1 /\ Len(server[1]) = 1 /\ runs = 1
    /\ runs = 2 => concurrency = 1 /\ server = <<<<1>>>>
    /\ Start

FairSpec == InitFair /\ [][Next]_vars /\ Fairness

\* The list command over every server of the bounds, endless or not, without
\* a limit and with the limit 1; the download command for one user.
InitFairList ==
    /\ command \in {"list", "download"}
    /\ limit \in {None, Some(1)}
    /\ concurrency = 1
    /\ server \in Servers(MaxPages * MaxPageSize)
    /\ endless \in BOOLEAN
    /\ runs \in 1..2
    /\ raw = Served("v1")
    /\ command = "list" => runs = 1
    /\ command = "download" => server = <<<<1>>>> /\ limit = None /\ ~endless
    /\ Start

FairListSpec == InitFairList /\ [][Next]_vars /\ Fairness

\* Listings in which a gist shows up twice: a gist created between two
\* requests shifts the last gist of one page to the head of the next.
ShiftedServers == {<<<<id>>, <<id>>>> : id \in 1..MaxItems}

\* The download command over the shifted listings and those of Servers with
\* as many gists, the list command over the shifted ones; a second run for
\* one permit.
InitDup ==
    /\ command \in {"list", "download"}
    /\ limit = None
    /\ concurrency \in 1..MaxConcurrency
    /\ server \in ShiftedServers \cup
                 {sv \in Servers(MaxItems) : Len(sv) = 1 /\ Len(sv[1]) = 2}
    /\ endless = FALSE
    /\ runs \in 1..2
    /\ raw = Served("v1")
    /\ command = "list" => concurrency = 1 /\ runs = 1
    /\ runs = 2 => concurrency = 1 /\ server = <<<<1>>, <<1>>>>
    /\ Start

SpecDup == InitDup /\ [][Next]_vars

\* Two runs of the download command for a user with one gist, where the
\* raw_url endpoint serves every file or answers 404 for those of one gist;
\* the list command for the same users.
InitFiles ==
    /\ command \in {"list", "download"}
    /\ limit = None
    /\ concurrency = 1
    /\ server \in {<<<<id>>>> : id \in 1..MaxItems}
    /\ endless = FALSE
    /\ runs \in 1..2
    /\ raw \in {Served("v1")} \cup
               {Missing(Served("v1"), id) : id \in 1..MaxItems}
    /\ command = "download" => runs = 2
    /\ command = "list" => runs = 1 /\ raw = Served("v1")
    /\ Start

SpecFiles == InitFiles /\ [][Next]_vars


(***************************************************************************)
(* Properties.                                                             *)
(***************************************************************************)
ListFailed == list_fault # "none"
ListSucceeded == result.kind = "Ok"
BatchDone ==
    command = "download" /\ main_pc = "exited" /\ ListSucceeded
Running == {i \in Spawned : Holding(i)}
FailedTasks == {i \in Spawned : tasks[i].st = "Failed"}
SucceededTasks == {i \in Spawned : tasks[i].st = "Succeeded"}
\* The items the first k pages hold.
Upto(k) == Concat(SubSeq(server, 1, Min(k, Len(server))))

\* C1: a successful list_gists returns the first min(limit, available) items
\* of the server's sequence, in server order; without a limit, all of them.
C1_ListIsPrefix ==
    ListSucceeded =>
        result.gists = IF limit.some THEN Prefix(ServerItems, limit.v)
                       ELSE ServerItems

\* C1 witness: the limit cut the list inside the second or a later page.
C1_Witness ==
    /\ ListSucceeded
    /\ limit.some
    /\ requests >= 2
    /\ Len(Upto(requests - 1)) < limit.v
    /\ Len(Upto(requests)) > limit.v
    /\ Len(result.gists) = limit.v

\* The listing may stop at page k: it is the server's last page, the one
\* with no rel="next", or the pages up to it reach the limit.
StopsAt(k) ==
    \/ ~endless /\ k >= Len(server)
    \/ limit.some /\ Len(Upto(k)) >= limit.v

\* C2: a successful list_gists issued exactly as many requests as the first
\* page at which the next signal is absent or the limit is reached.
C2_RequestCount ==
    ListSucceeded =>
        /\ requests >= 1
        /\ StopsAt(requests)
        /\ \A k \in 1..(requests - 1) : ~StopsAt(k)

\* C2 witness: the limit was reached on a later page while pages remained.
C2_Witness ==
    /\ ListSucceeded
    /\ limit.some
    /\ requests >= 2
    /\ requests < Len(server)
    /\ Len(Upto(requests)) = limit.v

\* C3: the tasks running download_gist never outnumber the concurrency limit.
C3_BoundedConcurrency == Cardinality(Running) <= concurrency

\* C3 witness: the gate is full and another task waits for a permit.
C3_Witness ==
    /\ concurrency >= 1
    /\ Cardinality(Running) = concurrency
    /\ \E j \in Spawned : tasks[j].st = "acquire"

\* C4: a task's outcome follows from its own download alone: it fails exactly
\* when its own fetch, write or directory creation failed, a task that
\* succeeded has all its files on disk, no task is cancelled, a task that
\* waits finds a permit whenever fewer than `concurrency` tasks run (a failed
\* sibling keeps none), and once the spawn loop is over every listed gist has
\* its task.
C4_Isolation ==
    /\ \A j \in Spawned :
        /\ tasks[j].st # "Aborted"
        /\ tasks[j].st = "acquire" /\ Cardinality(Running) < concurrency =>
            ENABLED Acquire(j)
        /\ tasks[j].st = "Failed" => tasks[j].error # "none"
        /\ tasks[j].st = "Succeeded" =>
            /\ tasks[j].error = "none"
            /\ tasks[j].id \in dirs
            /\ \A f \in GistFiles(tasks[j].id) : OnDisk(tasks[j].id, f)
    /\ main_pc \in {"joining", "exited"} /\ ListSucceeded
       /\ command = "download" =>
            /\ Len(tasks) = Len(gists)
            /\ \A j \in Spawned : tasks[j].id = gists[j]

\* C4 witness: one task failed, and a task spawned after it succeeded.
C4_Witness ==
    \E i, j \in Spawned :
        /\ i < j
        /\ tasks[i].st = "Failed"
        /\ tasks[j].st = "Succeeded"
        /\ GistFiles(tasks[j].id) # {}

\* C5: handle_download has returned from a batch only when every spawned
\* task is Succeeded or Failed, and it never cancels a download task.
C5_WaitsForAll ==
    /\ \A i \in Spawned : tasks[i].st # "Aborted"
    /\ BatchDone =>
        /\ Len(tasks) = Len(gists)
        /\ \A i \in Spawned : Terminal(i)

\* C5 witness: the batch is over, a task failed, another one succeeded.
C5_Witness ==
    /\ BatchDone
    /\ FailedTasks # {}
    /\ SucceededTasks # {}

\* C6: a listing request that fails (transport or parse) makes list_gists
\* return an error and no items; handle_download returns that error, and no
\* task is spawned and nothing is written.
C6_ListingFailureIsFatal ==
    ListFailed =>
        /\ result.kind \in {"RequestError", "JsonError"}
        /\ result.gists = <<>>
        /\ tasks = <<>>
        /\ monitor = "none"
        /\ dirs = before.dirs
        /\ disk = before.disk
        /\ main_pc = "exited" => exit = result.kind

\* C11: a body that does not parse makes list_gists fail with a parse error
\* that carries the whole body sent and no items; a well-formed body never
\* produces that error.
C11_ParseErrorCarriesBody ==
    /\ list_fault = "parse" =>
        /\ result.kind = "JsonError"
        /\ result.text = sent_body
        /\ result.gists = <<>>
    /\ result.kind = "JsonError" =>
        /\ list_fault = "parse"
        /\ \A p \in 1..Len(server) : sent_body # Encode(PageItems(p))

\* C7: after a batch the run's result signals failure exactly when some
\* item's download failed.
C7_FailureIndicator ==
    BatchDone => (exit # "Ok" <=> FailedTasks # {})

\* C8: the summary reported when a batch completes counts the listed items
\* as total and counts as downloaded only what succeeded (total less failed).
C8_Summary ==
    BatchDone =>
        /\ log.found = Some(Len(gists))
        /\ log.downloaded =
             Some(CountFiles(gists)
                  - SumSeq([k \in 1..Len(tasks) |->
                        IF tasks[k].st = "Failed"
                        THEN Cardinality(GistFiles(tasks[k].id)) ELSE 0]))

\* The files and directory of gist id that exist on disk.
Touched(id) ==
    \/ id \in dirs \ before.dirs
    \/ \E t \in disk \ before.disk : t[1] = id
    \/ \E i \in Spawned :
        tasks[i].id = id /\ (tasks[i].made \/ tasks[i].wrote # {})

\* C9: a task holds a permit exactly while it works: nothing of its gist is
\* on disk or fetched before it acquired one, it holds one while it runs
\* download_gist, it holds none once it is Succeeded or Failed, and the
\* permits not held are available, so that all are back when all tasks ended.
C9_PermitSpan ==
    /\ \A i \in Spawned :
        /\ tasks[i].st = "acquire" =>
            ~tasks[i].permit /\ ~Touched(tasks[i].id) /\ tasks[i].inhand = 0
        /\ Holding(i) => tasks[i].permit
        /\ Terminal(i) => ~tasks[i].permit
    /\ main_pc \in {"spawning", "joining", "exited"} /\ ListSucceeded
       /\ command = "download" =>
            permits = concurrency
                      - Cardinality({i \in Spawned : tasks[i].permit})

\* C9 witness: every task of a batch of two ended, one of them on a write
\* error, and all permits are available again.
C9_Witness ==
    /\ concurrency >= 1
    /\ Len(tasks) = 2
    /\ \A i \in Spawned : Terminal(i)
    /\ \E i \in Spawned : tasks[i].error = "write"
    /\ permits = concurrency

\* The quota asks for a pause: absent, no number, or not above zero.
Exhausted(st) ==
    \/ st.kind = "absent"
    \/ st.kind = "raw"
    \/ st.kind = "int" /\ st.n <= 0

\* C10: after a listing response list_gists sleeps the fixed 3 seconds
\* exactly when x-ratelimit-remaining is absent, unparseable or <= 0.
C10_PauseIffExhausted ==
    l_pc = "text" =>
        slept = IF Exhausted(rate_status) THEN PauseMillis ELSE 0

\* C10 witness: the second page came with remaining = 50 and no pause.
C10_Witness ==
    /\ l_pc = "text"
    /\ page = 2
    /\ rate_status = Quota(50)
    /\ slept = 0

\* The files of gist id among the files d.
FilesOf(d, id) == {t \in d : t[1] = id}

\* C12: download_gist over a gist whose directory and files exist already
\* meets no error of its own making (it fails only on a fault of the network
\* or the disk); once it succeeded each file holds what the latest fetch
\* returned and nothing else, and when the endpoint's content is unchanged
\* the gist's files are what the first successful run left.
C12_RerunIdempotent ==
    \A i \in Spawned :
        LET id == tasks[i].id IN
        /\ tasks[i].error # "none" => tasks[i].hit
        /\ tasks[i].st = "Succeeded" =>
            /\ FilesOf(disk, id) =
                    {<<id, f, raw[<<id, f>>].body>> : f \in GistFiles(id)}
            /\ run = 2 /\ id \in before.ok /\ raw = before.raw =>
                    FilesOf(disk, id) = FilesOf(before.disk, id)

\* C12 witness: the second run wrote the two files of a gist again, over the
\* files the first run had written, and succeeded.
C12_Witness ==
    /\ run = 2
    /\ raw = before.raw
    /\ \E i \in Spawned :
        /\ tasks[i].st = "Succeeded"
        /\ tasks[i].id \in before.ok
        /\ Cardinality(tasks[i].wrote) = 2
        /\ Cardinality(FilesOf(before.disk, tasks[i].id)) = 2

\* C20: download_gist does not look at the status of a response: a task
\* fails only on a fault of the network or the disk, and a 404 answer whose
\* body could be read is written as the file's content by a task that is
\* reported successful.
C20_StatusIgnored ==
    \A i \in Spawned :
        /\ tasks[i].st = "Failed" => tasks[i].hit
        /\ tasks[i].st = "Succeeded" =>
            \A f \in GistFiles(tasks[i].id) :
                <<tasks[i].id, f, raw[<<tasks[i].id, f>>].body>> \in disk

\* C20 witness: the run is over with Ok, a task is Succeeded and counted as
\* such, and its file holds the body of a 404 answer.
C20_Witness ==
    /\ main_pc = "exited"
    /\ exit = "Ok"
    /\ log.succeeded >= 1
    /\ \E i \in Spawned, f \in 1..MaxFiles :
        /\ tasks[i].st = "Succeeded"
        /\ f \in GistFiles(tasks[i].id)
        /\ raw[<<tasks[i].id, f>>].status = 404
        /\ <<tasks[i].id, f, "Not Found">> \in disk

\* C13: the pause stands between two listing requests only: after a pause
\* the next step of list_gists is another request, and list_gists does not
\* return the list right after a pause.
C13_PauseOnlyBetweenRequests ==
    [][/\ l_pc = "text" /\ slept > 0 => l_pc' \in {"text", "send"}
       /\ l_pc' = "ok" => slept = 0]_vars

\* C14: with at least one permit, and every step of the runtime, the network
\* and the disk returning, each spawned task gets its permit, each reaches
\* Succeeded or Failed, and handle_download returns.
C14_Progress ==
    /\ \A i \in 1..MaxItems :
        /\ (concurrency >= 1 /\ i \in Spawned /\ tasks[i].st = "acquire")
                ~> (i \in Spawned /\ tasks[i].permit)
        /\ (concurrency >= 1 /\ i \in Spawned)
                ~> (i \in Spawned /\ Terminal(i))
    /\ (concurrency >= 1 /\ main_pc \in {"spawning", "joining"})
            ~> (main_pc = "exited" /\ exit = "Ok")

\* C14 witness: with one permit for two gists the second task had to wait
\* for the first; both ended and handle_download returned.
C14_Witness ==
    /\ concurrency = 1
    /\ Len(tasks) = 2
    /\ \A i \in Spawned : Terminal(i) /\ tasks[i].made
    /\ main_pc = "exited"
    /\ exit = "Ok"

\* C15: once a fetch or a write of a task failed, the task fetches and
\* writes nothing more and its gist's files stay as they are; the files it
\* had written before are on disk with their content, and it ends Failed and
\* is counted as failed.
C15_FailureStopsItem ==
    /\ [](\A i \in Spawned :
            tasks[i].error \in {"fetch", "write"} =>
                /\ tasks[i].st \in {"returned", "Failed"}
                /\ tasks[i].st = "Failed" => log.failed >= 1
                /\ \A f \in GistFiles(tasks[i].id) \ tasks[i].todo :
                    <<tasks[i].id, f, raw[<<tasks[i].id, f>>].body>>
                        \in disk)
    /\ [][\A i \in Spawned :
            tasks[i].error \in {"fetch", "write"} /\ tasks' # <<>> =>
                /\ tasks'[i].error = tasks[i].error
                /\ tasks'[i].todo = tasks[i].todo
                /\ tasks'[i].wrote = tasks[i].wrote
                /\ tasks'[i].inhand = 0
                /\ FilesOf(disk', tasks[i].id) = FilesOf(disk, tasks[i].id)
         ]_vars

\* C15 witness: a task wrote one file of its gist, failed on the other and
\* ended Failed; the file written is on disk.
C15_Witness ==
    \E i \in Spawned :
        /\ tasks[i].st = "Failed"
        /\ tasks[i].error \in {"fetch", "write"}
        /\ Cardinality(tasks[i].todo) = 1
        /\ \E f \in GistFiles(tasks[i].id) \ tasks[i].todo :
            <<tasks[i].id, f, "v1">> \in disk

\* The steps of a task, as pairs of states.
Forward ==
    {<<"acquire", "download">>, <<"download", "files">>,
     <<"download", "returned">>, <<"files", "fetched">>,
     <<"files", "returned">>, <<"fetched", "files">>,
     <<"fetched", "returned">>, <<"returned", "Succeeded">>,
     <<"returned", "Failed">>}

\* C16: every entry of the list has one task, spawned in order; a task only
\* steps forward (acquire, download, then per file fetched and written, then
\* returned and Succeeded or Failed), never leaves Succeeded or Failed, and
\* fetches only a file it has not yet written; a gist's directory exists
\* whenever a file of it does.
C16_ForwardOnly ==
    /\ [](/\ Len(tasks) <= Len(gists)
          /\ \A i \in Spawned : tasks[i].id = gists[i]
          /\ \A i \in Spawned :
                tasks[i].wrote # {} \/ tasks[i].inhand # 0 => tasks[i].made
          /\ \A t \in disk : t[1] \in dirs)
    /\ [][\A i \in Spawned :
            tasks' # <<>> =>
                /\ Len(tasks') >= Len(tasks)
                /\ \/ tasks'[i] = tasks[i]
                   \/ /\ <<tasks[i].st, tasks'[i].st>> \in Forward
                      /\ ~Terminal(i)
                      /\ tasks'[i].id = tasks[i].id
                      /\ tasks[i].wrote \subseteq tasks'[i].wrote
                      /\ tasks[i].st # "download" =>
                            tasks'[i].todo \subseteq tasks[i].todo
                      /\ tasks'[i].st = "fetched" =>
                            /\ tasks'[i].inhand \in tasks[i].todo
                            /\ tasks'[i].inhand \notin tasks[i].wrote
         ]_vars

\* C16 witness: a task went all the way and wrote both files of its gist.
C16_Witness ==
    \E i \in Spawned :
        /\ tasks[i].st = "Succeeded"
        /\ Cardinality(tasks[i].wrote) = 2
        /\ tasks[i].todo = {}

\* C17: the listed ids are pairwise distinct, and no two tasks of a batch
\* wrote the same path.
C17_NoSharedPath ==
    /\ \A j, k \in 1..Len(gists) : j # k => gists[j] # gists[k]
    /\ \A i, j \in Spawned :
        i # j =>
            {<<tasks[i].id, f>> : f \in tasks[i].wrote}
                \cap {<<tasks[j].id, f>> : f \in tasks[j].wrote} = {}

\* The limit is one the server's gists can meet.
LimitInReach == limit.some /\ Len(ServerItems) >= limit.v

\* C18: list_gists ends (with the list, an error or a panic) when the server
\* stops naming a next page or can meet the limit; against a server that
\* names a next page on every response and cannot meet the limit it never
\* returns a list: it goes on requesting until a request fails.
C18_ListTermination ==
    /\ (l_pc = "init" /\ (~endless \/ LimitInReach))
            ~> (l_pc \in {"ok", "err", "panic"})
    /\ [](endless /\ ~LimitInReach => l_pc # "ok")
    /\ (l_pc = "init" /\ endless /\ ~LimitInReach)
            ~> (requests = MaxRequests \/ ListFailed)

\* C18 witness: every page of an endless server was read without a fault,
\* and list_gists is about to request a page beyond them.
C18_Witness ==
    /\ endless
    /\ ~LimitInReach
    /\ l_pc = "send"
    /\ page > Len(server) + 1
    /\ list_fault = "none"

\* C19: with concurrency 0 and a list that is not empty, no task ever gets a
\* permit, no directory and no file is written, and handle_download does not
\* return.
C19_ZeroPermitsHang ==
    command = "download" /\ concurrency = 0 /\ ListSucceeded
    /\ result.gists # <<>> =>
        /\ main_pc # "exited"
        /\ \A i \in Spawned : tasks[i].st = "acquire" /\ ~tasks[i].permit
        /\ \A i \in Spawned : ~ENABLED Acquire(i)
        /\ dirs = before.dirs
        /\ disk = before.disk
        /\ main_pc = "joining" => ~ENABLED JoinNext /\ ~ENABLED JoinDone

\* C19 witness: both tasks are spawned and wait for a permit, and
\* handle_download waits in join_next.
C19_Witness ==
    /\ concurrency = 0
    /\ main_pc = "joining"
    /\ Len(tasks) = 2
    /\ \A i \in Spawned : tasks[i].st = "acquire"

====
